---- MODULE Spec2Model ----
(***************************************************************************)
(* Nutrition & calorie tracker (src/main.py): a Streamlit script that is   *)
(* re-executed top to bottom on every user interaction.  The model has two *)
(* parts that share one state:                                             *)
(*   - the remote store (USER_PROFILE, NUTRITION_LOG), the handlers that   *)
(*     write it and the blocks that aggregate the loaded log (Spec);       *)
(*   - the sidebar widgets and the target calculator (SpecCalc).           *)
(*                                                                         *)
(* Numbers.  The script computes in binary floating point; the model uses  *)
(* exact fixed point.  Food values and log totals are in tenths (every     *)
(* value of indian_food_data has at most one decimal).  Energies of the    *)
(* calculator are in ticks of 1/80000 kcal: the BMR coefficients have      *)
(* three decimals and the weight moves in steps of 0.5 kg (1/2000 kcal),   *)
(* and every activity multiplier is a multiple of 1/40.                    *)
(***************************************************************************)
EXTENDS Integers, Sequences, FiniteSets, TLC

VARIABLES
    \* ---- the remote store
    user_profile,    \* row 'main_profile' of USER_PROFILE
    nutrition_log,   \* rows of NUTRITION_LOG, ordered by ID
    next_id,         \* the ID the store assigns to the next appended row
    \* ---- the clock and the last script run
    today,           \* day number of datetime.today()
    last,            \* the handler the last run executed, and its store call's outcome
    messages,        \* st.error / st.success / st.warning / st.info of the last interaction
    profile,         \* load_user_profile() of the last run
    log_df,          \* load_log_from_db() of the last run
    totals,          \* "Today's Totals" of the last run
    daily_summary,   \* "Weekly Calorie Trend" of the last run (<< >>: no chart)
    \* ---- the sidebar widgets and what the run computes from them
    weight, height, age, gender, activity_level, goal, weekly_change,
    tdee, targets

storeVars == <<user_profile, nutrition_log, next_id, today, last, messages, profile,
               log_df, totals, daily_summary>>
calcVars == <<weight, height, age, gender, activity_level, goal, weekly_change,
              tdee, targets>>
vars == <<storeVars, calcVars>>

(***************************************************************************)
(* Arithmetic helpers                                                      *)
(***************************************************************************)
Max(a, b) == IF a >= b THEN a ELSE b

\* floor(x * n / d) for x >= 0, without forming x * n
MulDiv(x, n, d) == (x \div d) * n + ((x % d) * n) \div d

\* ticks per kcal of the BMR (1/2000 kcal), and of a TDEE or target (1/80000 kcal)
BmrTicks == 2000
MultiplierTicks == 40
Ticks == BmrTicks * MultiplierTicks

(***************************************************************************)
(* TDEE & goal calculation                                                 *)
(***************************************************************************)
ActivityLevels ==
    { "Sedentary (office job)", "Lightly Active (1-3 days/week exercise)",
      "Moderately Active (3-5 days/week exercise)",
      "Very Active (6-7 days/week exercise)", "Extra Active (hard labor, athlete)" }

\* The multipliers in fortieths: 1.2, 1.375, 1.55, 1.725, 1.9
ACTIVITY_MULTIPLIERS ==
    [a \in ActivityLevels |->
        CASE a = "Sedentary (office job)" -> 48
          [] a = "Lightly Active (1-3 days/week exercise)" -> 55
          [] a = "Moderately Active (3-5 days/week exercise)" -> 62
          [] a = "Very Active (6-7 days/week exercise)" -> 69
          [] a = "Extra Active (hard labor, athlete)" -> 76]

\* Mutant of MultiplierOf: a level missing from the table gets the largest multiplier.
MultiplierOfDefaultExtra(a) ==
    IF a \in DOMAIN ACTIVITY_MULTIPLIERS THEN ACTIVITY_MULTIPLIERS[a] ELSE 76

\* ACTIVITY_MULTIPLIERS.get(activity_level, 1.2)
MultiplierOf(a) == IF a \in DOMAIN ACTIVITY_MULTIPLIERS THEN ACTIVITY_MULTIPLIERS[a] ELSE 48

\* Mutant of bmr: the age term of the male formula added instead of subtracted.
bmr_age_added(w2, h, a, g) ==
    IF g = "Male"
    THEN 176724 + 13397 * w2 + 9598 * h + 11354 * a
    ELSE 895186 + 9247 * w2 + 6196 * h - 8660 * a

\* The local bmr of calculate_tdee, in 1/2000 kcal; w2 is the weight in half kilograms.
\*   Male:   88.362 + 13.397 w + 4.799 h - 5.677 age
\*   else:  447.593 +  9.247 w + 3.098 h - 4.330 age
bmr(w2, h, a, g) ==
    IF g = "Male"
    THEN 176724 + 13397 * w2 + 9598 * h - 11354 * a
    ELSE 895186 + 9247 * w2 + 6196 * h - 8660 * a

\* In ticks of 1/80000 kcal.
calculate_tdee(w2, h, a, g, act) == bmr(w2, h, a, g) * MultiplierOf(act)

KcalPerKg == 7700
DaysPerWeek == 7
MinCalories == 1200

\* (weekly_change_kg * 7700) / 7 in ticks; w10 is the weekly change in tenths of a kg.
calorie_change_per_day(w10) == (w10 * KcalPerKg * (Ticks \div 10)) \div DaysPerWeek

\* Mutant of unclamped_target: the goal test reduced to "not Muscle Gain".
unclamped_target_maintain_loses(base_calories, g, w10) ==
    IF g = "Muscle Gain" THEN base_calories + calorie_change_per_day(w10)
    ELSE base_calories - calorie_change_per_day(w10)

\* target_calories before the floor is applied
unclamped_target(base_calories, g, w10) ==
    IF g = "Weight Loss" THEN base_calories - calorie_change_per_day(w10)
    ELSE IF g = "Muscle Gain" THEN base_calories + calorie_change_per_day(w10)
    ELSE base_calories

\* Mutant of calculate_targets: the floor of 1200 left out.
calculate_targets_no_floor(base_calories, g, w10) ==
    LET target_calories == unclamped_target(base_calories, g, w10)
    IN  [ calories |-> target_calories,
          protein  |-> MulDiv(MulDiv(target_calories, 30, 100), 1, 4),
          carbs    |-> MulDiv(MulDiv(target_calories, 40, 100), 1, 4),
          fat      |-> MulDiv(MulDiv(target_calories, 30, 100), 1, 9) ]

calculate_targets(base_calories, g, w10) ==
    LET target_calories == Max(MinCalories * Ticks, unclamped_target(base_calories, g, w10))
    IN  [ calories |-> target_calories,
          protein  |-> MulDiv(MulDiv(target_calories, 30, 100), 1, 4),
          carbs    |-> MulDiv(MulDiv(target_calories, 40, 100), 1, 4),
          fat      |-> MulDiv(MulDiv(target_calories, 30, 100), 1, 9) ]

(***************************************************************************)
(* The sidebar: widget values, and the tdee and targets every run computes *)
(***************************************************************************)
GenderOptions == {"Male", "Female"}
GoalOptions == {"Maintain", "Weight Loss", "Muscle Gain"}

\* Widget defaults with an empty profile: 70.0 kg, 170 cm, 25, Male, Sedentary,
\* Weight Loss, 0.5 kg / week.
DefaultWeight == 140
DefaultHeight == 170
DefaultAge == 25
DefaultWeekly == 5

\* Values tried for each widget, inside the widget's range:
\* weight 40..200 kg in steps of 0.5, height 120..220, age 10..100, slider 0.0..1.5.
WeightChoices == {80, DefaultWeight, 400}
HeightChoices == {120, DefaultHeight, 220}
AgeChoices == {10, DefaultAge, 100}
WeeklyChoices == {0, DefaultWeekly, 15}

\* Lines 391-392: what the run computes from the widget values.
Computed(w2, h, a, g, act, gl, w10) ==
    /\ tdee' = calculate_tdee(w2, h, a, g, act)
    /\ targets' = calculate_targets(calculate_tdee(w2, h, a, g, act), gl, w10)

CalcInit ==
    /\ weight = DefaultWeight
    /\ height = DefaultHeight
    /\ age = DefaultAge
    /\ gender = "Male"
    /\ activity_level = "Sedentary (office job)"
    /\ goal = "Weight Loss"
    /\ weekly_change = DefaultWeekly
    /\ tdee = calculate_tdee(DefaultWeight, DefaultHeight, DefaultAge, "Male",
                             "Sedentary (office job)")
    /\ targets = calculate_targets(tdee, "Weight Loss", DefaultWeekly)

SetWeight ==
    \E w \in WeightChoices :
        /\ weight' = w
        /\ Computed(w, height, age, gender, activity_level, goal, weekly_change)
        /\ UNCHANGED <<height, age, gender, activity_level, goal, weekly_change>>

SetHeight ==
    \E h \in HeightChoices :
        /\ height' = h
        /\ Computed(weight, h, age, gender, activity_level, goal, weekly_change)
        /\ UNCHANGED <<weight, age, gender, activity_level, goal, weekly_change>>

SetAge ==
    \E a \in AgeChoices :
        /\ age' = a
        /\ Computed(weight, height, a, gender, activity_level, goal, weekly_change)
        /\ UNCHANGED <<weight, height, gender, activity_level, goal, weekly_change>>

SetGender ==
    \E g \in GenderOptions :
        /\ gender' = g
        /\ Computed(weight, height, age, g, activity_level, goal, weekly_change)
        /\ UNCHANGED <<weight, height, age, activity_level, goal, weekly_change>>

SetActivity ==
    \E act \in ActivityLevels :
        /\ activity_level' = act
        /\ Computed(weight, height, age, gender, act, goal, weekly_change)
        /\ UNCHANGED <<weight, height, age, gender, goal, weekly_change>>

\* Line 385: the slider exists only while the goal is not Maintain; otherwise
\* weekly_change is 0.0.  A slider that appears again starts at its default.
SetGoal ==
    \E gl \in GoalOptions :
        LET w10 == IF gl = "Maintain" THEN 0
                   ELSE IF goal = "Maintain" THEN DefaultWeekly
                   ELSE weekly_change
        IN  /\ goal' = gl
            /\ weekly_change' = w10
            /\ Computed(weight, height, age, gender, activity_level, gl, w10)
            /\ UNCHANGED <<weight, height, age, gender, activity_level>>

SetWeeklyChange ==
    /\ goal # "Maintain"
    /\ \E w10 \in WeeklyChoices :
        /\ weekly_change' = w10
        /\ Computed(weight, height, age, gender, activity_level, goal, w10)
        /\ UNCHANGED <<weight, height, age, gender, activity_level, goal>>

(***************************************************************************)
(* Strings the script takes apart are sequences of characters.             *)
(***************************************************************************)
Banana == <<"B", "a", "n", "a", "n", "a">>
RotiChapati == <<"R", "o", "t", "i", " ", "(", "C", "h", "a", "p", "a", "t", "i", ")">>
EmptyString == << >>

DigitChars == <<"0", "1", "2", "3", "4", "5", "6", "7", "8", "9">>

\* str(n) of a natural number n
RECURSIVE IntToStr(_)
IntToStr(n) ==
    IF n < 10 THEN <<DigitChars[n + 1]>>
    ELSE IntToStr(n \div 10) \o <<DigitChars[(n % 10) + 1]>>

\* the places where sep occurs in s
Occurrences(s, sep) ==
    { i \in 1..(Len(s) - Len(sep) + 1) : SubSeq(s, i, i + Len(sep) - 1) = sep }

SetMax(S) == CHOOSE x \in S : \A y \in S : y <= x
SetMin(S) == CHOOSE x \in S : \A y \in S : x <= y

\* Mutant of RSplitFirst: s.split(sep)[0], the text before the first occurrence.
SplitFirst(s, sep) ==
    IF Occurrences(s, sep) = {} THEN s
    ELSE SubSeq(s, 1, SetMin(Occurrences(s, sep)) - 1)

\* s.rsplit(sep, 1)[0]: the text before the last occurrence of sep, or all of s
RSplitFirst(s, sep) ==
    IF Occurrences(s, sep) = {} THEN s
    ELSE SubSeq(s, 1, SetMax(Occurrences(s, sep)) - 1)

(***************************************************************************)
(* Food database: the rows of indian_food_data the model logs, in tenths.  *)
(*   Roti (Chapati)  40 g  120 kcal  3 g protein  24 g carbs  1 g fat      *)
(*   Banana         100 g   90 kcal  1 g protein  23 g carbs  0.3 g fat    *)
(***************************************************************************)
FOOD_DB ==
    (RotiChapati :> [serving_size_g |-> 40, cal |-> 1200, protein |-> 30,
                     carbs |-> 240, fat |-> 10])
    @@ (Banana :> [serving_size_g |-> 100, cal |-> 900, protein |-> 10,
                   carbs |-> 230, fat |-> 3])

\* sorted(FOOD_DB.items()): the names in ascending order
SortedFoodNames == <<Banana, RotiChapati>>

\* f"{name} ({info['serving_size_g']}g)"
DisplayLabel(name) ==
    name \o <<" ", "(">> \o IntToStr(FOOD_DB[name].serving_size_g) \o <<"g", ")">>

food_options_display ==
    <<EmptyString>> \o [i \in 1..Len(SortedFoodNames) |-> DisplayLabel(SortedFoodNames[i])]

\* Line 409: selected_food_display.rsplit(' (', 1)[0] if selected_food_display else None
ParseSearchFood(selected) ==
    IF selected = EmptyString
    THEN [none |-> TRUE, name |-> EmptyString]
    ELSE [none |-> FALSE, name |-> RSplitFirst(selected, <<" ", "(">>)]

\* Line 414: search_food and search_food in FOOD_DB
ValidFood(sf) == ~sf.none /\ sf.name # EmptyString /\ sf.name \in DOMAIN FOOD_DB

\* Mutant of BuildEntry: the protein of one serving, whatever the quantity.
BuildEntryProteinPerServing(day, meal_type, name, quantity) ==
    [ Date |-> day, Meal |-> meal_type, Food |-> name, Quantity |-> quantity,
      Calories |-> FOOD_DB[name].cal * quantity,
      Protein |-> FOOD_DB[name].protein,
      Carbs |-> FOOD_DB[name].carbs * quantity,
      Fat |-> FOOD_DB[name].fat * quantity ]

\* Line 417: the entry the form builds (Quantity in servings, the rest in tenths)
BuildEntry(day, meal_type, name, quantity) ==
    [ Date |-> day, Meal |-> meal_type, Food |-> name, Quantity |-> quantity,
      Calories |-> FOOD_DB[name].cal * quantity,
      Protein |-> FOOD_DB[name].protein * quantity,
      Carbs |-> FOOD_DB[name].carbs * quantity,
      Fat |-> FOOD_DB[name].fat * quantity ]

(***************************************************************************)
(* The store                                                               *)
(***************************************************************************)
\* The row 'main_profile' of USER_PROFILE: absent, or holding json.dumps(profile_data)
\* in VALUE.
NoRow == [row |-> "none"]
JsonRow(profile_data) == [row |-> "json", value |-> profile_data]

\* A dict: {} or the profile's seven keys
EmptyDict == [empty |-> TRUE]
Dict(profile_data) == [empty |-> FALSE, data |-> profile_data]

DefaultProfileData ==
    [ weight |-> DefaultWeight, height |-> DefaultHeight, age |-> DefaultAge,
      gender |-> "Male", activity_level |-> "Sedentary (office job)",
      goal |-> "Weight Loss", weekly_change |-> DefaultWeekly ]
OtherProfileData ==
    [ weight |-> 121, height |-> 160, age |-> 40,
      gender |-> "Female", activity_level |-> "Very Active (6-7 days/week exercise)",
      goal |-> "Maintain", weekly_change |-> 0 ]

\* The profiles the Save button is clicked with, and the rows the table starts with
ProfileChoices == {DefaultProfileData, OtherProfileData}
InitialRows == {NoRow, JsonRow(OtherProfileData)}

ErrLoadProfile == "Error loading user profile"
ErrSaveProfile == "Error saving user profile"
ErrLoadLog == "Error loading nutrition log"
ErrSaveEntry == "Error saving food entry"
ErrDeleteEntry == "Error deleting food entry"
MsgProfileSaved == "Profile saved!"
MsgAdded == "Added"
WarnInvalidFood == "Please select a valid food item."
InfoFirstMeal == "Log your first meal to see your progress dashboard!"
InfoWeekly == "Log meals for a couple of days to see your weekly trends."

\* load_user_profile: {} when the query fails or finds no row
load_user_profile(stored, failed) ==
    IF failed THEN EmptyDict
    ELSE IF stored.row = "json" THEN Dict(stored.value)
    ELSE EmptyDict

\* save_user_profile: USER_PROFILE after the call.  The merge is commented out (lines
\* 62-71): the session is opened, the source frame is built, nothing is written.
StoredAfterSaveProfile(stored, profile_data, failed) == stored

MsgsSaveProfile(failed) == IF failed THEN {ErrSaveProfile} ELSE {}

\* SELECT * FROM NUTRITION_LOG ORDER BY ID ASC
RECURSIVE OrderById(_)
OrderById(rows) ==
    IF rows = {} THEN << >>
    ELSE LET first == CHOOSE r \in rows : \A q \in rows : r.ID <= q.ID
         IN  <<first>> \o OrderById(rows \ {first})

\* load_log_from_db: an empty frame when the query fails
load_log_from_db(rows, failed) == IF failed THEN << >> ELSE OrderById(rows)

\* save_entry_to_db: NUTRITION_LOG after the call; the store assigns the ID
LogAfterSaveEntry(rows, entry, id, failed) ==
    IF failed THEN rows
    ELSE rows \cup {[ ID |-> id, Date |-> entry.Date, Meal |-> entry.Meal,
                      Food |-> entry.Food, Quantity |-> entry.Quantity,
                      Calories |-> entry.Calories, Protein |-> entry.Protein,
                      Carbs |-> entry.Carbs, Fat |-> entry.Fat ]}

\* Mutant of MsgsSaveEntry: the profile's error message reused.
MsgsSaveEntrySameMessage(failed) == IF failed THEN {ErrSaveProfile} ELSE {}

MsgsSaveEntry(failed) == IF failed THEN {ErrSaveEntry} ELSE {}

\* Mutant of LogAfterDelete: the comparison col("ID") <= entry_id.
LogAfterDeleteUpTo(rows, entry_id, failed) ==
    IF failed THEN rows ELSE { r \in rows : r.ID > entry_id }

\* delete_entry_from_db: NUTRITION_LOG after the call
LogAfterDelete(rows, entry_id, failed) ==
    IF failed THEN rows ELSE { r \in rows : r.ID # entry_id }

MsgsDeleteEntry(failed) == IF failed THEN {ErrDeleteEntry} ELSE {}

(***************************************************************************)
(* The aggregation blocks of a run                                         *)
(***************************************************************************)
\* column.sum() of a frame, row by row
RECURSIVE ColumnSum(_, _)
ColumnSum(frame, column) ==
    IF frame = << >> THEN 0
    ELSE frame[1][column] + ColumnSum(Tail(frame), column)

\* Mutant of RowsOfDay: the date filter left out.
RowsOfAnyDay(frame, day) == frame

\* Lines 350-354: df_today
RowsOfDay(frame, day) == SelectSeq(frame, LAMBDA r : r.Date = day)

\* Lines 358-365 and 448-453: the totals, computed only when df_today is not empty
NoTotals == [shown |-> FALSE]
TodayTotals(df_today) ==
    IF df_today # << >>
    THEN [ shown |-> TRUE,
           calories |-> ColumnSum(df_today, "Calories"),
           protein |-> ColumnSum(df_today, "Protein"),
           carbs |-> ColumnSum(df_today, "Carbs"),
           fat |-> ColumnSum(df_today, "Fat") ]
    ELSE NoTotals

\* timedelta(days=6)
WindowBack == 6

\* Mutant of WeeklyTrend: the group-by alone, without the reindex over all_days.
WeeklyTrendGroupByOnly(frame, day) ==
    LET week_start_date == day - WindowBack
        week_df == SelectSeq(frame, LAMBDA r : r.Date >= week_start_date)
        days == { week_df[i].Date : i \in 1..Len(week_df) }
        all_days == [i \in 1..(day - week_start_date + 1) |-> week_start_date + i - 1]
        present == SelectSeq(all_days, LAMBDA d : d \in days)
    IN  IF frame # << >> /\ Len(week_df) > 1
        THEN [i \in 1..Len(present) |->
                [ date |-> present[i],
                  calories |-> ColumnSum(SelectSeq(week_df, LAMBDA r : r.Date = present[i]),
                                         "Calories") ]]
        ELSE << >>

\* Lines 466-478: the weekly series, or no chart (<< >>) when the log is empty or the
\* window holds at most one entry
WeeklyTrend(frame, day) ==
    LET week_start_date == day - WindowBack
        week_df == SelectSeq(frame, LAMBDA r : r.Date >= week_start_date)
        grouped == [d \in {week_df[i].Date : i \in 1..Len(week_df)} |->
                        ColumnSum(RowsOfDay(week_df, d), "Calories")]
        all_days == [i \in 1..(day - week_start_date + 1) |-> week_start_date + i - 1]
    IN  IF frame # << >> /\ Len(week_df) > 1
        THEN [i \in 1..Len(all_days) |->
                [ date |-> all_days[i],
                  calories |-> IF all_days[i] \in DOMAIN grouped
                               THEN grouped[all_days[i]] ELSE 0 ]]
        ELSE << >>

\* Everything a run loads, computes and says, given the handler's own messages
RunView(stored, rows, day, failed_profile, failed_log, handler_msgs) ==
    LET df == load_log_from_db(rows, failed_log)
        df_today == RowsOfDay(df, day)
    IN  /\ profile' = load_user_profile(stored, failed_profile)
        /\ log_df' = df
        /\ totals' = TodayTotals(df_today)
        /\ daily_summary' = WeeklyTrend(df, day)
        /\ messages' = handler_msgs
                \cup (IF failed_profile THEN {ErrLoadProfile} ELSE {})
                \cup (IF failed_log THEN {ErrLoadLog} ELSE {})
                \cup (IF df_today = << >> THEN {InfoFirstMeal} ELSE {})
                \cup (IF WeeklyTrend(df, day) = << >> THEN {InfoWeekly} ELSE {})

(***************************************************************************)
(* Bounds                                                                  *)
(***************************************************************************)
MaxId == 2         \* rows ever appended
MaxDay == 7        \* last day the clock reaches

MealOptions == <<"Breakfast", "Lunch", "Dinner", "Snacks">>
MealChoices == {MealOptions[1]}
QuantityChoices == {1, 2}   \* servings tried (the widget allows 1..20)
DaySteps == {3, 7}          \* days between two openings of the page

(***************************************************************************)
(* The handlers.  One action is one interaction: the run that handles the  *)
(* click and, where the handler ends in st.rerun(), the run that follows;  *)
(* the loads and blocks recorded are those of the interaction's last run.  *)
(* A store call either takes effect or raises (failed).  A failing         *)
(* NUTRITION_LOG query is tried in every run, a failing USER_PROFILE query *)
(* in the runs without a handler.                                          *)
(***************************************************************************)
StoreInit ==
    /\ user_profile \in InitialRows
    /\ nutrition_log = {}
    /\ next_id = 1
    /\ today = 0
    /\ last = [op |-> "open", failed |-> FALSE]
    /\ messages = {InfoFirstMeal, InfoWeekly}
    /\ profile = load_user_profile(user_profile, FALSE)
    /\ log_df = << >>
    /\ totals = NoTotals
    /\ daily_summary = << >>

\* A run with no button pressed (the page is opened or reloaded)
Refresh ==
    \E fp \in BOOLEAN, fl \in BOOLEAN :
        /\ last' = [op |-> "open", failed |-> FALSE]
        /\ RunView(user_profile, nutrition_log, today, fp, fl, {})
        /\ UNCHANGED <<user_profile, nutrition_log, next_id, today>>

\* The page is opened on a later day
NewDay ==
    \E step \in DaySteps, fp \in BOOLEAN, fl \in BOOLEAN :
        /\ today + step <= MaxDay
        /\ today' = today + step
        /\ last' = [op |-> "open", failed |-> FALSE]
        /\ RunView(user_profile, nutrition_log, today + step, fp, fl, {})
        /\ UNCHANGED <<user_profile, nutrition_log, next_id>>

\* Lines 386-390: Save Profile & Goals, then st.rerun()
SaveProfile ==
    \E profile_data \in ProfileChoices, failed \in BOOLEAN, fl \in BOOLEAN :
        /\ user_profile' = StoredAfterSaveProfile(user_profile, profile_data, failed)
        /\ last' = [op |-> "save_profile", failed |-> failed, profile_data |-> profile_data]
        /\ RunView(StoredAfterSaveProfile(user_profile, profile_data, failed),
                   nutrition_log, today, FALSE, fl,
                   MsgsSaveProfile(failed) \cup {MsgProfileSaved})
        /\ UNCHANGED <<nutrition_log, next_id, today>>

\* Lines 413-421: Add Food to Log; st.rerun() after a valid food, a warning otherwise
AddFood ==
    \E i \in 1..Len(food_options_display), quantity \in QuantityChoices,
       meal_type \in MealChoices, failed \in BOOLEAN, fl \in BOOLEAN :
        LET selected == food_options_display[i]
            sf == ParseSearchFood(selected)
        IN  IF ValidFood(sf)
            THEN LET entry == BuildEntry(today, meal_type, sf.name, quantity)
                     rows == LogAfterSaveEntry(nutrition_log, entry, next_id, failed)
                 IN  /\ next_id <= MaxId
                     /\ nutrition_log' = rows
                     /\ next_id' = IF rows = nutrition_log THEN next_id ELSE next_id + 1
                     /\ last' = [op |-> "add_food", failed |-> failed, valid |-> TRUE,
                                 selected_food_display |-> selected, search_food |-> sf,
                                 entry |-> entry]
                     /\ RunView(user_profile, rows, today, FALSE, fl,
                                MsgsSaveEntry(failed) \cup {MsgAdded})
                     /\ UNCHANGED <<user_profile, today>>
            ELSE /\ ~failed
                 /\ last' = [op |-> "add_food", failed |-> FALSE, valid |-> FALSE,
                             selected_food_display |-> selected, search_food |-> sf]
                 /\ RunView(user_profile, nutrition_log, today, FALSE, fl, {WarnInvalidFood})
                 /\ UNCHANGED <<user_profile, nutrition_log, next_id, today>>

\* Lines 437-443: the delete button of a row of Today's Log, then st.rerun().  The
\* button exists only for a row of df_today as this run loaded it.
DeleteEntry ==
    \E row \in nutrition_log, failed \in BOOLEAN, fl \in BOOLEAN :
        /\ row.Date = today
        /\ nutrition_log' = LogAfterDelete(nutrition_log, row.ID, failed)
        /\ last' = [op |-> "delete", failed |-> failed, entry_id |-> row.ID]
        /\ RunView(user_profile, LogAfterDelete(nutrition_log, row.ID, failed),
                   today, FALSE, fl, MsgsDeleteEntry(failed))
        /\ UNCHANGED <<user_profile, next_id, today>>

(***************************************************************************)
(* Specifications                                                          *)
(***************************************************************************)
Init == StoreInit /\ CalcInit

Next ==
    \/ Refresh /\ UNCHANGED calcVars
    \/ NewDay /\ UNCHANGED calcVars
    \/ SaveProfile /\ UNCHANGED calcVars
    \/ AddFood /\ UNCHANGED calcVars
    \/ DeleteEntry /\ UNCHANGED calcVars

Spec == Init /\ [][Next]_vars

NextCalc ==
    \/ SetWeight /\ UNCHANGED storeVars
    \/ SetHeight /\ UNCHANGED storeVars
    \/ SetAge /\ UNCHANGED storeVars
    \/ SetGender /\ UNCHANGED storeVars
    \/ SetActivity /\ UNCHANGED storeVars
    \/ SetGoal /\ UNCHANGED storeVars
    \/ SetWeeklyChange /\ UNCHANGED storeVars

SpecCalc == Init /\ [][NextCalc]_vars

(***************************************************************************)
(* Properties.  Helpers used only to state them.                           *)
(***************************************************************************)
\* the sum of a column over a set of rows, in no particular order
RECURSIVE SumOverSet(_, _)
SumOverSet(rows, column) ==
    IF rows = {} THEN 0
    ELSE LET r == CHOOSE x \in rows : TRUE
         IN  r[column] + SumOverSet(rows \ {r}, column)

RowSet(frame) == { frame[i] : i \in 1..Len(frame) }
Ids(rows) == { r.ID : r \in rows }

\* the frame with its rows in another order
Reordered(frame, perm) == [i \in 1..Len(frame) |-> frame[perm[i]]]
Orders(frame) ==
    { perm \in [1..Len(frame) -> 1..Len(frame)] :
        \A i, j \in 1..Len(frame) : i # j => perm[i] # perm[j] }

\* C1: after save_user_profile(P) completes without a store error the stored profile
\* is P, and the load of the run that follows returns P.
C1_SaveProfilePersists ==
    (last.op = "save_profile" /\ ~last.failed)
        => /\ user_profile = JsonRow(last.profile_data)
           /\ profile = Dict(last.profile_data)

\* C2 as stated: for every log, the empty one included, the weekly series has exactly
\* 7 points, one per date from today-6 to today in increasing order, each the sum of
\* the calories of the stored entries of that date (0 without entries).
C2_WeeklySeriesForEveryLog ==
    /\ Len(daily_summary) = WindowBack + 1
    /\ \A i \in 1..Len(daily_summary) :
        /\ daily_summary[i].date = today - WindowBack + i - 1
        /\ daily_summary[i].calories =
              SumOverSet({ r \in nutrition_log : r.Date = daily_summary[i].date }, "Calories")

\* C2 amended: when the loaded log has more than one entry dated today-6 or later, the
\* weekly series has exactly 7 points, one per consecutive date from today-6 to today
\* in strictly increasing order, each the sum of the calories of the loaded entries of
\* that date and 0 for a date without entries; with at most one such entry (the empty
\* log, a single entry, a failed load) no series is produced and the info message is
\* shown instead.
C2_WeeklySeries ==
    LET in_window == { r \in RowSet(log_df) : r.Date >= today - WindowBack }
    IN  IF Cardinality(in_window) > 1
        THEN /\ Len(daily_summary) = 7
             /\ \A i \in 1..Len(daily_summary) :
                 /\ daily_summary[i].date = today - 7 + i
                 /\ i > 1 => daily_summary[i].date = daily_summary[i - 1].date + 1
                 /\ daily_summary[i].calories =
                       SumOverSet({ r \in RowSet(log_df) : r.Date = daily_summary[i].date },
                                  "Calories")
             /\ InfoWeekly \notin messages
        ELSE /\ daily_summary = << >>
             /\ InfoWeekly \in messages

\* C2 witness: a series whose entries cover one day only: six zeros and one nonzero.
C2_Witness ==
    /\ Len(daily_summary) = 7
    /\ Cardinality({ i \in 1..7 : daily_summary[i].calories = 0 }) = 6
    /\ Cardinality({ i \in 1..7 : daily_summary[i].calories > 0 }) = 1

\* C3: a failed save_user_profile leaves the stored log unchanged, a failed
\* save_entry_to_db leaves the stored profile unchanged, each shows its own error
\* message and not the other's, the two messages differ, and the run goes on past the
\* failed call (the line after it runs).
C3_IndependentSaves ==
    [][ /\ (last'.op = "save_profile" /\ last'.failed)
            => /\ nutrition_log' = nutrition_log
               /\ ErrSaveProfile \in messages'
               /\ ErrSaveEntry \notin messages'
               /\ MsgProfileSaved \in messages'
        /\ (last'.op = "add_food" /\ last'.failed)
            => /\ user_profile' = user_profile
               /\ ErrSaveEntry \in messages'
               /\ ErrSaveProfile \notin messages'
               /\ MsgAdded \in messages'
        /\ ErrSaveProfile # ErrSaveEntry
      ]_vars

\* C3 witness: a failed profile save with entries in the log and a stored profile.
C3_Witness ==
    /\ last.op = "save_profile"
    /\ last.failed
    /\ nutrition_log # {}
    /\ user_profile # NoRow
    /\ ErrSaveProfile \in messages

\* C4: every stored entry has quantity > 0, names a key of the food table and carries
\* quantity times that food's per-serving calories, protein, carbs and fat (Roti
\* (Chapati) times 2: 240, 6, 48, 2); no action changes a stored entry.
C4_EntryValues ==
    \A r \in nutrition_log :
        /\ r.Quantity > 0
        /\ r.Food \in DOMAIN FOOD_DB
        /\ r.Calories = r.Quantity * FOOD_DB[r.Food].cal
        /\ r.Protein = r.Quantity * FOOD_DB[r.Food].protein
        /\ r.Carbs = r.Quantity * FOOD_DB[r.Food].carbs
        /\ r.Fat = r.Quantity * FOOD_DB[r.Food].fat
        /\ (r.Food = RotiChapati /\ r.Quantity = 2)
            => (r.Calories = 2400 /\ r.Protein = 60 /\ r.Carbs = 480 /\ r.Fat = 20)

\* C4, in full: the values hold in every reachable state of the log, and no step
\* changes an entry that stays in the log.
C4_EntriesDerived ==
    /\ []C4_EntryValues
    /\ [][ \A r \in nutrition_log : \A q \in nutrition_log' : q.ID = r.ID => q = r ]_vars

\* C4 witness: two servings of Roti (Chapati) in the log, added on an earlier day.
C4_Witness ==
    \E r \in nutrition_log :
        r.Food = RotiChapati /\ r.Quantity = 2 /\ r.Date < today /\ last.op # "add_food"

\* C5: the log changes only by appending one new entry or by deleting by id.  A delete
\* removes exactly the entries with that ID and leaves the others as they are, Add Food
\* leaves every existing entry as it is, and deleting an id no entry has changes nothing.
C5_AppendOrDeleteById ==
    [][ /\ \/ nutrition_log' = nutrition_log
           \/ /\ last'.op = "add_food"
              /\ nutrition_log \subseteq nutrition_log'
              /\ Cardinality(nutrition_log' \ nutrition_log) = 1
              /\ \A q \in nutrition_log' \ nutrition_log : q.ID \notin Ids(nutrition_log)
           \/ /\ last'.op = "delete"
              /\ nutrition_log' \subseteq nutrition_log
        /\ (last'.op = "delete" /\ ~last'.failed)
            => \A r \in nutrition_log : (r \in nutrition_log') <=> (r.ID # last'.entry_id)
        /\ (last'.op = "add_food") => nutrition_log \subseteq nutrition_log'
        /\ \A id \in 0..(MaxId + 1) :
            id \notin Ids(nutrition_log) => LogAfterDelete(nutrition_log, id, FALSE) = nutrition_log
      ]_vars

\* C5 witness: a delete that took effect and left another entry in the log.
C5_Witness ==
    /\ last.op = "delete"
    /\ ~last.failed
    /\ last.entry_id \notin Ids(nutrition_log)
    /\ nutrition_log # {}

\* Sample values of the calculator's arguments beyond the widgets' ranges (tenths of a
\* kg per week; ticks)
ExtremeWeekly == {0 - 30, 0, DefaultWeekly, 15, 30}
ExtremeBases == {0, MinCalories * Ticks - 1, MinCalories * Ticks, 20000 * Ticks}

\* 0.1 kg per week is 7700 / 70 = 110 kcal per day
DeltaTicks(w10) == w10 * 110 * Ticks

\* C6: calculate_targets returns calories >= 1200 for every base value, goal and weekly
\* change; a value that is at least 1200 before the floor is returned as it is.
C6_CalorieFloor ==
    LET wanted == CASE goal = "Weight Loss" -> tdee - DeltaTicks(weekly_change)
                    [] goal = "Muscle Gain" -> tdee + DeltaTicks(weekly_change)
                    [] OTHER -> tdee
    IN  /\ targets.calories >= 1200 * Ticks
        /\ wanted >= 1200 * Ticks => targets.calories = wanted
        /\ \A base \in ExtremeBases \cup {tdee}, w10 \in ExtremeWeekly :
            /\ \A g \in GoalOptions : calculate_targets(base, g, w10).calories >= 1200 * Ticks
            /\ base - DeltaTicks(w10) >= 1200 * Ticks
                => calculate_targets(base, "Weight Loss", w10).calories = base - DeltaTicks(w10)
            /\ base + DeltaTicks(w10) >= 1200 * Ticks
                => calculate_targets(base, "Muscle Gain", w10).calories = base + DeltaTicks(w10)
            /\ base >= 1200 * Ticks
                => calculate_targets(base, "Maintain", w10).calories = base

\* C6 witness: a weight-loss target that the floor raised to 1200.
C6_Witness ==
    /\ goal = "Weight Loss"
    /\ weekly_change > 0
    /\ tdee - DeltaTicks(weekly_change) < 1200 * Ticks
    /\ targets.calories = 1200 * Ticks

\* C7: under goal Maintain the weekly change is ignored: the four targets are the same
\* for any two weekly changes, and the calories are max(1200, tdee).
C7_MaintainIgnoresWeeklyChange ==
    /\ \A x \in ExtremeWeekly, y \in ExtremeWeekly :
        calculate_targets(tdee, "Maintain", x) = calculate_targets(tdee, "Maintain", y)
    /\ \A x \in ExtremeWeekly :
        calculate_targets(tdee, "Maintain", x).calories =
            (IF tdee >= 1200 * Ticks THEN tdee ELSE 1200 * Ticks)
    /\ goal = "Maintain"
        => /\ weekly_change = 0
           /\ \A x \in ExtremeWeekly : targets = calculate_targets(tdee, "Maintain", x)

\* C7 witness: goal Maintain with a tdee above the floor, returned as the calories.
C7_Witness ==
    /\ goal = "Maintain"
    /\ tdee > 1200 * Ticks
    /\ targets.calories = tdee

\* C8 as stated: the totals of today are the field-wise sums over the stored entries
\* dated today, and all four are zero when there is none.
C8_TotalsZeroWithoutEntries ==
    LET rows == { r \in nutrition_log : r.Date = today }
    IN  totals = [ shown |-> TRUE,
                   calories |-> SumOverSet(rows, "Calories"),
                   protein |-> SumOverSet(rows, "Protein"),
                   carbs |-> SumOverSet(rows, "Carbs"),
                   fat |-> SumOverSet(rows, "Fat") ]

\* C8 amended: when the loaded log has an entry dated today, the totals of today are the
\* field-wise sums of calories, protein, carbs and fat over exactly the loaded entries
\* dated today, whatever the order of the entries in the log, and entries of other dates
\* contribute nothing; with no loaded entry dated today no totals are computed (the
\* totals and dashboard blocks are skipped and the info message is shown).
C8_DailyTotals ==
    LET rows == { r \in RowSet(log_df) : r.Date = today }
    IN  IF rows = {}
        THEN totals = NoTotals /\ InfoFirstMeal \in messages
        ELSE /\ totals = [ shown |-> TRUE,
                           calories |-> SumOverSet(rows, "Calories"),
                           protein |-> SumOverSet(rows, "Protein"),
                           carbs |-> SumOverSet(rows, "Carbs"),
                           fat |-> SumOverSet(rows, "Fat") ]
             /\ \A perm \in Orders(log_df) :
                   TodayTotals(RowsOfDay(Reordered(log_df, perm), today)) = totals
             /\ InfoFirstMeal \notin messages

\* C8 witness: totals shown while the log also holds an entry of another date.
C8_Witness ==
    /\ totals.shown
    /\ \E r \in RowSet(log_df) : r.Date # today /\ r.Calories > 0

\* The scenario of C9: the widgets' defaults
Scenario ==
    /\ weight = 140 /\ height = 170 /\ age = 25 /\ gender = "Male"
    /\ activity_level = "Sedentary (office job)"
    /\ goal = "Weight Loss" /\ weekly_change = 5

\* x is within tol thousandths of v thousandths (x in ticks)
Near(x, v, tol) ==
    /\ x >= (v - tol) * (Ticks \div 1000)
    /\ x <= (v + tol) * (Ticks \div 1000)

\* C9 as stated: BMR 1649.875, TDEE 1979.85, daily delta 550, calories 1429.85, protein
\* 107.2, carbs 142.99, fat 47.66, each within 0.05.
C9_ScenarioAsStated ==
    Scenario
        => /\ Near(bmr(weight, height, age, gender) * MultiplierTicks, 1649875, 50)
           /\ Near(tdee, 1979850, 50)
           /\ Near(calorie_change_per_day(weekly_change), 550000, 50)
           /\ Near(targets.calories, 1429850, 50)
           /\ Near(targets.protein, 107200, 50)
           /\ Near(targets.carbs, 142990, 50)
           /\ Near(targets.fat, 47660, 50)

\* C9 amended: for that profile the BMR is 1700.057, calculate_tdee returns 2040.0684,
\* the daily delta is 550 and calculate_targets returns calories 1490.0684, protein
\* about 111.755, carbs about 149.007 and fat about 49.669 (each within 0.001).
C9_Scenario ==
    Scenario
        => /\ bmr(weight, height, age, gender) * MultiplierTicks = 1700057 * (Ticks \div 1000)
           /\ Near(tdee, 2040068, 1)
           /\ calorie_change_per_day(weekly_change) = 550 * Ticks
           /\ Near(targets.calories, 1490068, 1)
           /\ Near(targets.protein, 111755, 1)
           /\ Near(targets.carbs, 149007, 1)
           /\ Near(targets.fat, 49669, 1)

\* C9 witness: the scenario's widget values with the tdee and the targets the run
\* computed from them.
C9_Witness ==
    /\ Scenario
    /\ targets.calories = tdee - 550 * Ticks
    /\ targets.calories > 1200 * Ticks

\* s holds the substring " ("
ContainsSeparator(s) == \E i \in 1..(Len(s) - 1) : s[i] = " " /\ s[i + 1] = "("

\* name is followed in label by " (" and by a rest
SplitsAt(label, name) ==
    /\ Len(name) + 2 <= Len(label)
    /\ SubSeq(label, 1, Len(name)) = name
    /\ label[Len(name) + 1] = " "
    /\ label[Len(name) + 2] = "("

\* C10 as stated: the name recovered from a selected label is the text before the first
\* occurrence of " (" in the label.
C10_NameBeforeFirstSeparator ==
    (last.op = "add_food" /\ last.selected_food_display # EmptyString)
        => IF ContainsSeparator(last.selected_food_display)
           THEN /\ SplitsAt(last.selected_food_display, last.search_food.name)
                /\ ~ContainsSeparator(last.search_food.name)
           ELSE last.search_food.name = last.selected_food_display

\* C10 amended: the name recovered from a selected label is the text before the last
\* occurrence of " (" in the label (the whole label when it holds none), so that a label
\* of the select box gives back its food's name; Add Food looks that name up in the food
\* table and logs an entry only when it is a key of the table, otherwise (nothing
\* selected) it warns and the log is unchanged.
C10_NameBeforeLastSeparator ==
    [][ last'.op = "add_food" =>
          LET label == last'.selected_food_display
              sf == last'.search_food
              is_key == ~sf.none /\ sf.name \in DOMAIN FOOD_DB
          IN  /\ label = EmptyString => sf.none
              /\ label # EmptyString =>
                    /\ ~sf.none
                    /\ IF ContainsSeparator(label)
                       THEN /\ SplitsAt(label, sf.name)
                            /\ ~ContainsSeparator(SubSeq(label, Len(sf.name) + 3, Len(label)))
                       ELSE sf.name = label
                    /\ \A i \in 1..Len(SortedFoodNames) :
                          label = DisplayLabel(SortedFoodNames[i]) => sf.name = SortedFoodNames[i]
              /\ nutrition_log' # nutrition_log => is_key
              /\ (is_key /\ ~last'.failed) =>
                    \E q \in nutrition_log' \ nutrition_log : q.Food = sf.name
              /\ ~is_key => (WarnInvalidFood \in messages' /\ nutrition_log' = nutrition_log)
      ]_vars

\* C10 witness: Roti (Chapati) logged from its label "Roti (Chapati) (40g)".
C10_Witness ==
    /\ last.op = "add_food"
    /\ ~last.failed
    /\ last.selected_food_display = DisplayLabel(RotiChapati)
    /\ last.search_food.name = RotiChapati
    /\ \E r \in nutrition_log : r.Food = RotiChapati

(***************************************************************************)
(* C11                                                                     *)
(***************************************************************************)
\* An activity string that is not a key of the table
UnknownActivity == "Couch Potato"
ActivityInputs == ActivityLevels \cup {UnknownActivity}

\* The multiplier the specification gives each activity level, in thousandths;
\* a string outside the table counts as 1.20.
StatedMultiplier(a) ==
    CASE a = "Sedentary (office job)" -> 1200
      [] a = "Lightly Active (1-3 days/week exercise)" -> 1375
      [] a = "Moderately Active (3-5 days/week exercise)" -> 1550
      [] a = "Very Active (6-7 days/week exercise)" -> 1725
      [] a = "Extra Active (hard labor, athlete)" -> 1900
      [] OTHER -> 1200

\* C11: calculate_tdee is monotonically non-decreasing in the activity multiplier.
\* For the weight, height, age and gender of the form and any two activity strings
\* a and b, one of which may be missing from the table and then counts as 1.20,
\* multiplier(a) <= multiplier(b) implies calculate_tdee(.., a) <= calculate_tdee(.., b);
\* the sidebar's tdee is that function of the widgets' values.
C11_TdeeMonotoneInMultiplier ==
    /\ tdee = calculate_tdee(weight, height, age, gender, activity_level)
    /\ \A a \in ActivityInputs, b \in ActivityInputs :
          StatedMultiplier(a) <= StatedMultiplier(b)
            => calculate_tdee(weight, height, age, gender, a)
                 <= calculate_tdee(weight, height, age, gender, b)

\* The smallest BMR of the form's ranges (40 kg, 120 cm, age 100) under the largest
\* multiplier: the TDEE shown is strictly above the one of an unknown activity
\* string, which is the Sedentary one.
C11_Witness ==
    /\ weight = 80 /\ height = 120 /\ age = 100
    /\ activity_level = "Extra Active (hard labor, athlete)"
    /\ tdee = calculate_tdee(weight, height, age, gender, activity_level)
    /\ tdee > calculate_tdee(weight, height, age, gender, UnknownActivity)
    /\ calculate_tdee(weight, height, age, gender, UnknownActivity)
         = calculate_tdee(weight, height, age, gender, "Sedentary (office job)")

(***************************************************************************)
(* C12                                                                     *)
(***************************************************************************)
\* The submitted entry is a row of NUTRITION_LOG, under whatever ID
EntryStored(rows, entry) ==
    \E r \in rows :
        /\ r.Date = entry.Date /\ r.Meal = entry.Meal /\ r.Food = entry.Food
        /\ r.Quantity = entry.Quantity /\ r.Calories = entry.Calories
        /\ r.Protein = entry.Protein /\ r.Carbs = entry.Carbs /\ r.Fat = entry.Fat

\* C12: a success message is shown only for a write that took effect.  Whenever
\* the interaction shows "Profile saved!" the stored profile is the profile just
\* submitted and no profile-save error is shown; whenever it shows "Added ..." the
\* submitted entry is in the stored log and no entry-save error is shown.
C12_SuccessOnlyForEffectiveWrite ==
    /\ (last.op = "save_profile" /\ MsgProfileSaved \in messages)
          => /\ user_profile = JsonRow(last.profile_data)
             /\ ErrSaveProfile \notin messages
             /\ ~last.failed
    /\ (last.op = "add_food" /\ MsgAdded \in messages)
          => /\ EntryStored(nutrition_log, last.entry)
             /\ ErrSaveEntry \notin messages
             /\ ~last.failed

\* C12, the entry half alone: "Added ..." is shown only when the submitted entry
\* is in the stored log and the insert did not raise.
C12_AddedOnlyWhenStored ==
    (last.op = "add_food" /\ MsgAdded \in messages)
        => /\ EntryStored(nutrition_log, last.entry)
           /\ ErrSaveEntry \notin messages

====
